---- MODULE Spec2Model ----
(***************************************************************************)
(* Model of the revision-change pipeline of scripts/get_revisions.py:      *)
(* get_revisions (partitioning and worker pool), process_batch (fetch,     *)
(* diff, filter, context, classification, upsert) and the revisions table  *)
(* created by scripts/init_db.py.                                          *)
(*                                                                         *)
(* Texts are sequences of one-character strings.  Scores are fixed-point   *)
(* hundredths (35 stands for 0.35), so that the filter thresholds 0.1 and  *)
(* 0.3 are the integers 10 and 30.                                         *)
(***************************************************************************)
EXTENDS Integers, Sequences, FiniteSets, TLC

VARIABLES
    articles_table,     \* rows of table articles, in SELECT order (urls)
    revisions_columns,  \* columns of table revisions in data/wiki.db
    store,              \* committed rows of table revisions
    limit,              \* get_revisions(limit=...)
    num_gpus,           \* torch.cuda.device_count()
    run,                \* number of the current invocation of get_revisions
    mainpc,             \* position of get_revisions
    articles_from_db,   \* local variable of get_revisions
    chunks,             \* np.array_split result
    spawn_i,            \* loop variable of the spawn loop
    processes,          \* list of started processes (device ids)
    wk,                 \* per worker: the locals of process_batch
    fault_budget,       \* number of environment faults the behaviour may meet
    faults,             \* number of environment faults met so far
    history,            \* observations of the run (not program state)
    score_before,       \* filter harness: the pair under test
    score_after,
    save_flag,
    filterpc,
    ctx,                \* context harness: the texts under test and the result
    argv                \* the command line main.py was started with

vars == <<articles_table, revisions_columns, store, limit, num_gpus, run,
          mainpc, articles_from_db, chunks, spawn_i, processes, wk,
          fault_budget, faults, history, score_before, score_after, save_flag, filterpc, ctx, argv>>

----------------------------------------------------------------------------
(* Bounds *)

MaxGpus == 3        \* largest device count explored by the pipeline
MaxRuns == 2        \* invocations of get_revisions in one behaviour
MaxFaults == 1      \* kills, store errors and service errors per behaviour
MaxM == 6           \* partition harness: largest article list
MaxN == 4           \* partition harness: largest device count
MaxScore == 100     \* filter harness: scores range over 0..MaxScore
MaxAfter == 2       \* context harness: longest after_text
MaxBefore == 3      \* context harness: longest before_text
MaxCurr == 4        \* context harness: longest current content
MaxPrev == 3        \* context harness: longest previous content

NoLimit == -1       \* stands for limit=None

----------------------------------------------------------------------------
(* Generic helpers *)

Abs(x) == IF x < 0 THEN -x ELSE x

Min(a, b) == IF a < b THEN a ELSE b

Max(a, b) == IF a > b THEN a ELSE b

Range(s) == {s[k] : k \in 1..Len(s)}

\* Python slice s[a:b] with 0 <= a, b <= len(s) (0-based, end exclusive)
Slice(s, a, b) == IF b <= a THEN <<>> ELSE SubSeq(s, a + 1, b)

----------------------------------------------------------------------------
(* Text primitives.  A text is a sequence of tokens: "a" a neutral word,  *)
(* "b" a biased word, " " whitespace, "{" template markup.                *)

IsSpace(ch) == ch = " "

RECURSIVE LStrip(_)
LStrip(t) == IF t # <<>> /\ IsSpace(Head(t)) THEN LStrip(Tail(t)) ELSE t

RECURSIVE RStrip(_)
RStrip(t) ==
    IF t # <<>> /\ IsSpace(t[Len(t)]) THEN RStrip(SubSeq(t, 1, Len(t) - 1)) ELSE t

\* str.strip()
Strip(t) == RStrip(LStrip(t))

\* mwparserfromhell.parse(t).strip_code(): template markup is removed
RECURSIVE strip_code(_)
strip_code(t) ==
    IF t = <<>> THEN <<>>
    ELSE IF Head(t) = "{" THEN strip_code(Tail(t))
    ELSE <<Head(t)>> \o strip_code(Tail(t))

\* the try/except around the two parse calls: on a parser exception both
\* sides fall back to the plain strip()
clean_text(t, parse_ok) == IF parse_ok THEN Strip(strip_code(t)) ELSE Strip(t)

\* "not text or not text.strip()"
IsBlank(t) == t = <<>> \/ Strip(t) = <<>>

RECURSIVE Count(_, _)
Count(ch, t) ==
    IF t = <<>> THEN 0
    ELSE (IF Head(t) = ch THEN 1 ELSE 0) + Count(ch, Tail(t))

\* [m.start() for m in re.finditer(re.escape(pat), s)] from offset k on:
\* leftmost non-overlapping occurrences, 0-based offsets
RECURSIVE FindFrom(_, _, _)
FindFrom(pat, s, k) ==
    IF k + Len(pat) > Len(s) THEN <<>>
    ELSE IF SubSeq(s, k + 1, k + Len(pat)) = pat
         THEN <<k>> \o FindFrom(pat, s, k + Len(pat))
         ELSE FindFrom(pat, s, k + 1)

finditer(pat, s) == FindFrom(pat, s, 0)

\* min(matches, key=lambda x: abs(x - hint_idx)): the first minimal element
MinByDistance(matches, hint_idx) ==
    LET best == CHOOSE k \in 1..Len(matches) :
                   /\ \A j \in 1..Len(matches) :
                         Abs(matches[k] - hint_idx) <= Abs(matches[j] - hint_idx)
                   /\ \A j \in 1..(k - 1) :
                         Abs(matches[j] - hint_idx) > Abs(matches[k] - hint_idx)
    IN  matches[best]

----------------------------------------------------------------------------
(* Classification services.  The two transformers pipelines are external; *)
(* they are stood in for by fixed deterministic functions of the text.    *)

\* bias_pipeline(text)[0]: label/score items, scores in percent
bias_pipeline(t) ==
    LET nb == Count("b", t)
    IN  IF nb = 0 THEN
            << [label |-> "Neutral", score |-> 100],
               [label |-> "Slightly Biased", score |-> 0],
               [label |-> "Highly Biased", score |-> 0] >>
        ELSE IF nb = 1 THEN
            << [label |-> "Neutral", score |-> 60],
               [label |-> "Slightly Biased", score |-> 40],
               [label |-> "Highly Biased", score |-> 0] >>
        ELSE
            << [label |-> "Slightly Biased", score |-> 50],
               [label |-> "Neutral", score |-> 40],
               [label |-> "Highly Biased", score |-> 10] >>

\* scores.get(name, 0.0)
ScoreOf(items, name) ==
    IF \E k \in 1..Len(items) : items[k].label = name
    THEN items[CHOOSE k \in 1..Len(items) : items[k].label = name].score
    ELSE 0

\* max(scores, key=scores.get): first key with the largest score
BestLabel(items) ==
    items[CHOOSE k \in 1..Len(items) :
            /\ \A j \in 1..Len(items) : items[j].score <= items[k].score
            /\ \A j \in 1..(k - 1) : items[j].score < items[k].score].label

\* get_bias_data(text, device_id); service_ok is FALSE when the model could
\* not be loaded (bias_pipeline is None) or the call raised
get_bias_data(t, service_ok) ==
    IF IsBlank(t) THEN [score |-> 0, label |-> "Neutral"]
    ELSE IF ~service_ok THEN [score |-> 0, label |-> "Neutral"]
    ELSE LET items == bias_pipeline(t)
             s_slight == ScoreOf(items, "Slightly Biased")
             s_high == ScoreOf(items, "Highly Biased")
         IN  [score |-> (s_slight * 50 + s_high * 100) \div 100,
              label |-> BestLabel(items)]

\* zero_shot_pipeline(text, candidate_labels)['labels'], ranked
zero_shot_topic(t) ==
    IF Count("b", t) > 0 THEN <<"Politics", "Science">> ELSE <<"Science", "Politics">>

zero_shot_stance(t) ==
    IF Count("b", t) > 1 THEN <<"Partisan", "Centrist">> ELSE <<"Centrist", "Partisan">>

\* the "N/A" default not kept when the service fails
predict_topic_no_default(t, service_ok) ==
    IF IsBlank(t) THEN "N/A"
    ELSE LET labels == zero_shot_topic(t)
         IN  IF Len(labels) > 0 THEN labels[1] ELSE "N/A"

predict_topic(t, service_ok) ==
    IF IsBlank(t) THEN "N/A"
    ELSE IF ~service_ok THEN "N/A"
    ELSE LET labels == zero_shot_topic(t)
         IN  IF Len(labels) > 0 THEN labels[1] ELSE "N/A"

predict_political_stance(t, service_ok) ==
    IF IsBlank(t) THEN "N/A"
    ELSE IF ~service_ok THEN "N/A"
    ELSE LET labels == zero_shot_stance(t)
         IN  IF Len(labels) > 0 THEN labels[1] ELSE "N/A"

\* _is_ip_address(user) on the user names the remote returns
IpUsers == {"192.168.1.1", "2001:db8::1"}

_is_ip_address(user) == user \in IpUsers

----------------------------------------------------------------------------
(* Significance filter (the save_change decision of process_batch)        *)

ThresholdDelta == 10    \* 0.1
ThresholdAfter == 30    \* 0.3

\* the subtraction the other way round
diff_score_reversed(before, after) == before - after

diff_score(before, after) == after - before

\* the second test (after > 0.3) left out
save_change_delta_only(before, after) ==
    Abs(after - before) > ThresholdDelta

\* the flag initialised to True
save_change_always(before, after) == TRUE

save_change(before, after) ==
    IF Abs(diff_score(before, after)) > ThresholdDelta THEN TRUE
    ELSE IF after > ThresholdAfter THEN TRUE
    ELSE FALSE

\* f"{sequence:04d}"
Pad4(n) ==
    IF n < 10 THEN "000" \o ToString(n)
    ELSE IF n < 100 THEN "00" \o ToString(n)
    ELSE IF n < 1000 THEN "0" \o ToString(n)
    ELSE ToString(n)

\* the sequence number counted from 0
sub_id_zero_based(revid, sub_id_counter) ==
    ToString(revid) \o "-" \o Pad4(sub_id_counter - 1)

\* f"{revid}-{sub_id_counter:04d}"
sub_id(revid, sub_id_counter) == ToString(revid) \o "-" \o Pad4(sub_id_counter)

----------------------------------------------------------------------------
(* The remote revision-history API and the article corpus                 *)

\* article urls in parsed form (urlparse: netloc, last path segment)
Foo     == [domain |-> "en.wikipedia.org", title |-> "Foo"]
Bar     == [domain |-> "zh.wikipedia.org", title |-> "Bar"]
Missing == [domain |-> "en.wikipedia.org", title |-> "Missing"]
Bad     == [domain |-> "en.wikipedia.org", title |-> "Bad"]

\* contents of the revisions (wikitext)
ContentFoo3 == <<"b", "b", " ", "a", "{">>
ContentFoo2 == <<"a", " ", "b", "{">>
ContentBar3 == <<"b", "b">>

RevFoo3 == [revid |-> 3, user |-> "Jane_Doe", timestamp |-> "T3", content |-> ContentFoo3]
RevFoo2 == [revid |-> 2, user |-> "192.168.1.1", timestamp |-> "T2", content |-> ContentFoo2]
RevBar3 == [revid |-> 3, user |-> "Jane_Doe", timestamp |-> "T1", content |-> ContentBar3]

\* The responses of the API to the successive requests for one article,
\* newest revision first.  Revision ids are unique within one wiki, not
\* across wikis.
\*   page:     data["query"]["pages"][page_id]["revisions"], "continue" in data
\*   notfound: page id "-1"
\*   noquery:  a body without the "query" key (an API error body)
Remote(url) ==
    IF url = Foo THEN
        << [kind |-> "page", revisions |-> <<RevFoo3>>, continue |-> TRUE],
           [kind |-> "page", revisions |-> <<RevFoo2>>, continue |-> FALSE] >>
    ELSE IF url = Bar THEN
        << [kind |-> "page", revisions |-> <<RevBar3>>, continue |-> FALSE] >>
    ELSE IF url = Bad THEN
        << [kind |-> "noquery", revisions |-> <<>>, continue |-> FALSE] >>
    ELSE
        << [kind |-> "notfound", revisions |-> <<>>, continue |-> FALSE] >>

\* contents of table articles that the runs start from
ArticleTables ==
    { <<>>,
      <<Foo, Bar>>,
      <<Missing, Foo>>,
      <<Bad, Bar, Foo>> }

----------------------------------------------------------------------------
(* Structured diff (mwedittypes is external: its answer for a content     *)
(* pair is a fixed table)                                                 *)

NodeEdit(type, edittype, name, changes) ==
    [type |-> type, edittype |-> edittype, name |-> name, changes |-> changes]

\* one entry of node.changes: the field and the values before and after
\* (<<>> where the library gives None)
NodeChange(field, prev, curr) == [field |-> field, prev |-> prev, curr |-> curr]

TextEdit(type, edittype, text) == [type |-> type, edittype |-> edittype, text |-> text]

\* StructuredEditTypes("wikitext", prev_content, curr_content).get_diff()
get_diff(prev_content, curr_content) ==
    IF prev_content = ContentFoo2 /\ curr_content = ContentFoo3 THEN
        [raised |-> FALSE,
         node_edits |->
            << NodeEdit("Template", "change", "t",
                        << NodeChange("parameter", <<"{">>, <<" ">>) >>),
               NodeEdit("Wikilink", "change", "w",
                        << NodeChange("title", <<"a">>, <<"a">>) >>),
               NodeEdit("Category", "change", "c",
                        << NodeChange("title", <<"a">>, <<"b">>) >>),
               NodeEdit("Reference", "insert", "r", <<>>) >>,
         text_edits |->
            << TextEdit("Sentence", "insert", <<"b", "b">>),
               TextEdit("Sentence", "change", <<"a">>),
               TextEdit("Word", "insert", <<"b">>),
               TextEdit("Sentence", "remove", <<"b">>),
               TextEdit("Sentence", "change", <<"b", "b">>) >>]
    ELSE IF prev_content = <<>> /\ curr_content = ContentFoo2 THEN
        [raised |-> FALSE,
         node_edits |-> <<>>,
         text_edits |->
            << TextEdit("Sentence", "insert", <<"a">>),
               TextEdit("Sentence", "insert", <<"b">>) >>]
    ELSE IF prev_content = <<>> /\ curr_content = ContentFoo3 THEN
        [raised |-> FALSE,
         node_edits |-> <<>>,
         text_edits |-> << TextEdit("Sentence", "insert", <<"b", "b">>) >>]
    ELSE IF prev_content = <<>> /\ curr_content = ContentBar3 THEN
        [raised |-> FALSE,
         node_edits |-> <<>>,
         text_edits |-> << TextEdit("Sentence", "insert", <<"b", "b">>) >>]
    ELSE
        [raised |-> TRUE, node_edits |-> <<>>, text_edits |-> <<>>]

Change(type, before, after, desc) ==
    [type |-> type, before |-> before, after |-> after, desc |-> desc]

\* the changes one node edit contributes
RECURSIVE NodeChanges(_, _)
NodeChanges(node, cs) ==
    IF cs = <<>> THEN <<>>
    ELSE LET change == Head(cs)
             before_val == change.prev
             after_val == change.curr
         IN  (IF before_val = after_val THEN <<>>
              ELSE << Change("Node:" \o node.type \o ":" \o change.field,
                             before_val, after_val,
                             node.type \o " " \o node.name \o " changed " \o change.field) >>)
             \o NodeChanges(node, Tail(cs))

RECURSIVE ProcessNodeEdits(_)
ProcessNodeEdits(nodes) ==
    IF nodes = <<>> THEN <<>>
    ELSE LET node == Head(nodes)
         IN  (IF node.type \in {"Template", "Wikilink", "Reference"}
                 /\ node.edittype = "change"
              THEN NodeChanges(node, node.changes)
              ELSE <<>>)
             \o ProcessNodeEdits(Tail(nodes))

RECURSIVE ProcessTextEdits(_)
ProcessTextEdits(edits) ==
    IF edits = <<>> THEN <<>>
    ELSE LET text_edit == Head(edits)
         IN  (IF text_edit.type # "Sentence" THEN <<>>
              ELSE IF text_edit.edittype = "insert" THEN
                  << Change("Text:Sentence:Insert", <<>>, text_edit.text, "Inserted Sentence") >>
              ELSE IF text_edit.edittype = "remove" THEN
                  << Change("Text:Sentence:Remove", text_edit.text, <<>>, "Removed Sentence") >>
              ELSE IF text_edit.edittype = "change" THEN
                  << Change("Text:Sentence:Change", text_edit.text, text_edit.text, "Changed Sentence") >>
              ELSE <<>>)
             \o ProcessTextEdits(Tail(edits))

\* the exception of the diff swallowed, and the revision taken as one
\* inserted sentence
get_structured_changes_whole(prev_content, curr_content, diff_ok) ==
    LET diff == get_diff(prev_content, curr_content)
    IN  IF ~diff_ok \/ diff.raised
        THEN << Change("Text:Sentence:Insert", <<>>, curr_content, "Inserted Sentence") >>
        ELSE ProcessNodeEdits(diff.node_edits) \o ProcessTextEdits(diff.text_edits)

\* diff_ok is FALSE when StructuredEditTypes or get_diff raises for a reason
\* outside the table above
get_structured_changes(prev_content, curr_content, diff_ok) ==
    LET diff == get_diff(prev_content, curr_content)
    IN  IF ~diff_ok \/ diff.raised THEN <<>>
        ELSE ProcessNodeEdits(diff.node_edits) \o ProcessTextEdits(diff.text_edits)

----------------------------------------------------------------------------
(* Context builder (the ai_context computation of process_batch)          *)

\* the hint ignored: always the first occurrence
best_idx_first(before_text, after_text, prev_content, curr_content) ==
    finditer(after_text, curr_content)[1]

best_idx(before_text, after_text, prev_content, curr_content) ==
    LET matches == finditer(after_text, curr_content)
        prev_matches == finditer(before_text, prev_content)
    IN  IF Len(matches) > 1 /\ ~IsBlank(before_text) /\ prev_content # <<>>
           /\ prev_matches # <<>>
        THEN MinByDistance(matches, prev_matches[1])
        ELSE matches[1]

\* the whole length of after_text taken on each side
context_window_wide(after_text, curr_content, idx) ==
    [start |-> Max(0, idx - Len(after_text)),
     end |-> Min(Len(curr_content), idx + Len(after_text) + Len(after_text))]

\* start and end of the slice: int(len(after_text) * 0.5) on each side
context_window(after_text, curr_content, idx) ==
    LET half == Len(after_text) \div 2
    IN  [start |-> Max(0, idx - half),
         end |-> Min(Len(curr_content), idx + Len(after_text) + half)]

ai_context(before_text, after_text, prev_content, curr_content) ==
    LET text_for_analysis == IF ~IsBlank(after_text) THEN after_text ELSE before_text
    IN  IF ~IsBlank(after_text) /\ curr_content # <<>>
           /\ finditer(after_text, curr_content) # <<>>
        THEN LET idx == best_idx(before_text, after_text, prev_content, curr_content)
                 window == context_window(after_text, curr_content, idx)
             IN  Slice(curr_content, window.start, window.end)
        ELSE text_for_analysis

----------------------------------------------------------------------------
(* The store: table revisions of data/wiki.db                             *)

\* CREATE TABLE IF NOT EXISTS revisions (...) of init_db
InitDbColumns ==
    {"id", "original_revid", "article_url", "user", "timestamp", "diff_before",
     "diff_after", "change_type", "change_desc", "bias_score_before",
     "bias_score_after", "bias_delta", "bias_label_before", "bias_label_after",
     "ai_topic", "is_ip", "manual_bias", "manual_topic"}

\* the column list of the INSERT OR REPLACE statement of process_batch
UpsertColumns ==
    {"id", "original_revid", "article_url", "user", "timestamp", "diff_before",
     "diff_after", "change_type", "change_desc", "bias_score_before",
     "bias_score_after", "bias_delta", "bias_label_before", "bias_label_after",
     "ai_topic", "ai_political_stance", "is_ip", "content"}

\* a plain INSERT on a table without the primary key
insert_keep_old(table, row) == table \cup {row}

\* the rows of the revision deleted before the insert
insert_replacing_revision(table, row) ==
    {r \in table : r.original_revid # row.original_revid} \cup {row}

\* INSERT OR REPLACE on a table whose primary key is id
insert_or_replace(table, row) == {r \in table : r.id # row.id} \cup {row}

\* the effect of a transaction: its statements in order
RECURSIVE ApplyAll(_, _)
ApplyAll(table, writes) ==
    IF writes = <<>> THEN table
    ELSE ApplyAll(insert_or_replace(table, Head(writes).row), Tail(writes))

\* the parameter tuple of the INSERT statement
make_row(article_url, rev, change, prev_content, id, bias_before, bias_after, topic_ok, stance_ok) ==
    LET context == ai_context(change.before, change.after, prev_content, rev.content)
    IN  [id |-> id,
         original_revid |-> rev.revid,
         article_url |-> article_url,
         user |-> rev.user,
         timestamp |-> rev.timestamp,
         diff_before |-> change.before,
         diff_after |-> change.after,
         change_type |-> change.type,
         change_desc |-> change.desc,
         bias_score_before |-> bias_before.score,
         bias_score_after |-> bias_after.score,
         bias_delta |-> diff_score(bias_before.score, bias_after.score),
         bias_label_before |-> bias_before.label,
         bias_label_after |-> bias_after.label,
         ai_topic |-> predict_topic(context, topic_ok),
         ai_political_stance |-> predict_political_stance(context, stance_ok),
         is_ip |-> IF _is_ip_address(rev.user) THEN 1 ELSE 0,
         content |-> context]

----------------------------------------------------------------------------
(* Work partitioning of get_revisions                                     *)

\* articles_from_db[:limit] under "if limit and limit > 0"
truncate(articles, lim) ==
    IF lim # NoLimit /\ lim > 0
    THEN SubSeq(articles, 1, Min(lim, Len(articles)))
    ELSE articles

\* equal sections of len // n elements: the remainder is left out
array_split_floor(articles, n) ==
    LET each == Len(articles) \div n
    IN  [k \in 1..n |-> Slice(articles, (k - 1) * each, k * each)]

\* np.array_split(articles, n): n sections, the first len % n of them one
\* element longer
array_split(articles, n) ==
    LET each == Len(articles) \div n
        extras == Len(articles) % n
        start(k) == k * each + Min(k, extras)
    IN  [k \in 1..n |-> Slice(articles, start(k - 1), start(k))]

----------------------------------------------------------------------------
(* Worker state: the locals of process_batch and its connection           *)

Workers == 0..(Max(MaxGpus, MaxN) - 1)

IdleWorker ==
    [status |-> "none",         \* none, running, finished, crashed
     cause |-> "none",          \* why the process died
     articles |-> <<>>,
     a |-> 1,                   \* position in articles (1-based)
     pc |-> "fetch",            \* fetch, revisions, change, commit
     req |-> 1,                 \* number of the next request for the article
     revisions_info |-> <<>>,
     i |-> 0,                   \* loop variable of the revision loop
     changes |-> <<>>,
     c |-> 1,                   \* position in changes (1-based)
     sub_id_counter |-> 1,
     pending |-> <<>>,          \* statements of the open transaction
     verdict |-> "none",        \* outcome of the last change unit
     topic_calls |-> 0,         \* predict_topic/predict_political_stance calls
     fetched |-> "none",        \* how the request loop of the article ended
     met |-> "none",            \* the environment fault met in the last step
     generated |-> <<>>]        \* ids generated for the current revision

StartedWorker(articles) == [IdleWorker EXCEPT !.status = "running", !.articles = articles]

\* the process dies: the open transaction is rolled back
Crashed(w, cause) ==
    [wk[w] EXCEPT !.status = "crashed", !.cause = cause, !.pending = <<>>]

\* "continue" of the change loop: next change, or next revision
NextChange(rec) ==
    IF rec.c < Len(rec.changes)
    THEN [rec EXCEPT !.c = rec.c + 1, !.pc = "change"]
    ELSE [rec EXCEPT !.c = 1, !.changes = <<>>, !.i = rec.i + 1, !.pc = "revisions"]

\* another connection holds the write lock
LockedByOther(w) ==
    \E v \in Workers : v # w /\ wk[v].status = "running" /\ wk[v].pending # <<>>

----------------------------------------------------------------------------
(* Observations kept for the properties (not program state)               *)

NoHistory ==
    [last |-> <<>>,         \* id -> row of the most recent committed write
     count |-> <<>>,        \* id -> number of committed writes (capped at 2)
     origins |-> {},        \* change units committed in the current run
     first_store |-> {}]    \* the store when the first run ended

Origin(write) ==
    [id |-> write.row.id, article_url |-> write.row.article_url,
     revid |-> write.row.original_revid, unit |-> write.unit]

RECURSIVE Observe(_, _)
Observe(h, writes) ==
    IF writes = <<>> THEN h
    ELSE LET write == Head(writes)
             id == write.row.id
             n == IF id \in DOMAIN h.count THEN h.count[id] ELSE 0
         IN  Observe([h EXCEPT !.last = (id :> write.row) @@ h.last,
                               !.count = (id :> Min(n + 1, 2)) @@ h.count,
                               !.origins = h.origins \cup {Origin(write)}],
                     Tail(writes))

----------------------------------------------------------------------------
(* get_revisions                                                          *)

\* get_revisions called directly, not through main.py
NoArgv == [cmd |-> "direct", limit |-> NoLimit, workers_per_gpu |-> 1]

\* the context harness when it is not in use
NoContext ==
    [pc |-> "off", before_text |-> <<>>, after_text |-> <<>>,
     prev_content |-> <<>>, curr_content |-> <<>>, context |-> <<>>]

HarnessIdle ==
    /\ score_before = 0
    /\ score_after = 0
    /\ save_flag = FALSE
    /\ filterpc = "off"
    /\ ctx = NoContext
    /\ argv = NoArgv

\* data/wiki.db and the machine before the command is invoked
Setup ==
    /\ articles_table \in ArticleTables
    /\ revisions_columns \in {InitDbColumns, InitDbColumns \cup UpsertColumns}
    /\ store = {}
    /\ limit \in {NoLimit, 2}
    /\ num_gpus \in 1..MaxGpus
    /\ run = 1
    /\ mainpc = "start"
    /\ articles_from_db = <<>>
    /\ chunks = <<>>
    /\ spawn_i = 0
    /\ processes = <<>>
    /\ wk = [w \in Workers |-> IdleWorker]
    /\ faults = 0
    /\ history = NoHistory
    /\ HarnessIdle

Init ==
    /\ Setup
    /\ fault_budget = MaxFaults

\* SELECT url, coord FROM articles; the limit; the empty case; the split
GetRevisions ==
    /\ mainpc = "start"
    /\ LET articles == truncate(articles_table, limit)
       IN  /\ articles_from_db' = articles
           /\ IF articles = <<>> THEN
                  /\ mainpc' = "returned"
                  /\ UNCHANGED <<chunks, wk>>
              ELSE IF num_gpus > 1 THEN
                  /\ chunks' = array_split(articles, num_gpus)
                  /\ mainpc' = "spawn"
                  /\ UNCHANGED wk
              ELSE
                  /\ mainpc' = "inproc"
                  /\ wk' = [wk EXCEPT ![0] = StartedWorker(articles)]
                  /\ UNCHANGED chunks
    /\ UNCHANGED <<articles_table, revisions_columns, store, limit, num_gpus, run,
                   spawn_i, processes, fault_budget, faults, history,
                   score_before, score_after, save_flag, filterpc, ctx, argv>>

\* one iteration of "for i in range(num_gpus)"
Spawn ==
    /\ mainpc = "spawn"
    /\ spawn_i < num_gpus
    /\ LET chunk == chunks[spawn_i + 1]
       IN  IF chunk = <<>> THEN UNCHANGED <<wk, processes>>
           ELSE /\ wk' = [wk EXCEPT ![spawn_i] = StartedWorker(chunk)]
                /\ processes' = Append(processes, spawn_i)
    /\ spawn_i' = spawn_i + 1
    /\ mainpc' = IF spawn_i + 1 = num_gpus THEN "join" ELSE "spawn"
    /\ UNCHANGED <<articles_table, revisions_columns, store, limit, num_gpus, run,
                   articles_from_db, chunks, fault_budget, faults, history,
                   score_before, score_after, save_flag, filterpc, ctx, argv>>

\* the return without the join loop
Join_NoWait ==
    /\ mainpc = "join"
    /\ mainpc' = "returned"
    /\ UNCHANGED <<articles_table, revisions_columns, store, limit, num_gpus, run,
                   articles_from_db, chunks, spawn_i, processes, wk,
                   fault_budget, faults, history,
                   score_before, score_after, save_flag, filterpc, ctx, argv>>

\* "for p in processes: p.join()", then return
Join ==
    /\ mainpc = "join"
    /\ \A k \in 1..Len(processes) : wk[processes[k]].status \in {"finished", "crashed"}
    /\ mainpc' = "returned"
    /\ UNCHANGED <<articles_table, revisions_columns, store, limit, num_gpus, run,
                   articles_from_db, chunks, spawn_i, processes, wk,
                   fault_budget, faults, history,
                   score_before, score_after, save_flag, filterpc, ctx, argv>>

\* the in-process call of process_batch returns or raises
InProcess ==
    /\ mainpc = "inproc"
    /\ wk[0].status \in {"finished", "crashed"}
    /\ mainpc' = IF wk[0].status = "finished" THEN "returned" ELSE "raised"
    /\ UNCHANGED <<articles_table, revisions_columns, store, limit, num_gpus, run,
                   articles_from_db, chunks, spawn_i, processes, wk,
                   fault_budget, faults, history,
                   score_before, score_after, save_flag, filterpc, ctx, argv>>

\* the command is invoked again on the same data/wiki.db
Rerun ==
    /\ mainpc \in {"returned", "raised"}
    /\ run < MaxRuns
    /\ run' = run + 1
    /\ mainpc' = "start"
    /\ articles_from_db' = <<>>
    /\ chunks' = <<>>
    /\ spawn_i' = 0
    /\ processes' = <<>>
    /\ wk' = [w \in Workers |-> IdleWorker]
    /\ history' = [history EXCEPT !.origins = {}, !.first_store = store]
    /\ UNCHANGED <<articles_table, revisions_columns, store, limit, num_gpus,
                   fault_budget, faults,
                   score_before, score_after, save_flag, filterpc, ctx, argv>>

----------------------------------------------------------------------------
(* process_batch                                                          *)

\* what stays the same in every step of a worker
WorkerFrame ==
    UNCHANGED <<articles_table, revisions_columns, limit, num_gpus, run, mainpc,
                articles_from_db, chunks, spawn_i, processes, fault_budget,
                score_before, score_after, save_flag, filterpc, ctx, argv>>

\* environment faults a step may meet, while the budget lasts
MayFail(kinds) == IF faults < fault_budget THEN {"none"} \cup kinds ELSE {"none"}

Charge(f) == faults' = IF f = "none" THEN faults ELSE faults + 1

\* the not-found response raised instead of skipped
NotFound_Raise(rec) ==
    [rec EXCEPT !.status = "crashed", !.cause = "NotFound", !.pending = <<>>]

\* page id "-1" or no page ids: print and break
NotFound(rec) == [rec EXCEPT !.pc = "revisions", !.i = 0, !.fetched = "notfound"]

\* the continuation token ignored: the loop ends after the first page
Page_FirstOnly(rec, data) ==
    [rec EXCEPT !.revisions_info = rec.revisions_info \o data.revisions,
                !.pc = "revisions", !.i = 0, !.fetched = "complete"]

\* revisions_info.extend(revisions), then the next request with the
\* continuation token, or break when the response carries none
Page(rec, data) ==
    IF data.continue THEN
        [rec EXCEPT !.revisions_info = rec.revisions_info \o data.revisions,
                    !.req = rec.req + 1]
    ELSE
        [rec EXCEPT !.revisions_info = rec.revisions_info \o data.revisions,
                    !.pc = "revisions", !.i = 0, !.fetched = "complete"]

\* one iteration of the "while True" request loop
FetchPage(w) ==
    /\ wk[w].status = "running"
    /\ wk[w].pc = "fetch"
    /\ wk[w].a <= Len(wk[w].articles)
    /\ \E f \in MayFail({"request"}) :
          LET rec == [wk[w] EXCEPT !.met = f]
              data == Remote(rec.articles[rec.a])[rec.req]
          IN  /\ Charge(f)
              /\ IF f = "request" THEN
                     \* urlopen raised: print and break
                     wk' = [wk EXCEPT ![w] =
                              [rec EXCEPT !.pc = "revisions", !.i = 0, !.fetched = "failed"]]
                 ELSE IF data.kind = "noquery" THEN
                     \* data["query"] raises KeyError outside the try
                     wk' = [wk EXCEPT ![w] = Crashed(w, "KeyError")]
                 ELSE IF data.kind = "notfound" THEN
                     wk' = [wk EXCEPT ![w] = NotFound(rec)]
                 ELSE
                     wk' = [wk EXCEPT ![w] = Page(rec, data)]
    /\ UNCHANGED <<store, history>>
    /\ WorkerFrame

curr_content(rec) == rec.revisions_info[rec.i + 1].content

prev_content(rec) ==
    IF rec.i + 1 < Len(rec.revisions_info)
    THEN rec.revisions_info[rec.i + 2].content
    ELSE <<>>

\* one iteration of "for i in range(len(revisions_info))" up to the change
\* loop, or the end of the article
NextRevision(w) ==
    /\ wk[w].status = "running"
    /\ wk[w].pc = "revisions"
    /\ \E f \in MayFail(IF wk[w].i < Len(wk[w].revisions_info) THEN {"diff"} ELSE {}) :
          LET rec == [wk[w] EXCEPT !.met = f]
              changes == get_structured_changes(prev_content(rec), curr_content(rec), f # "diff")
          IN  /\ Charge(f)
              /\ IF rec.i >= Len(rec.revisions_info) THEN
                     wk' = [wk EXCEPT ![w] =
                              [rec EXCEPT !.a = rec.a + 1, !.pc = "fetch", !.req = 1,
                                          !.revisions_info = <<>>, !.i = 0,
                                          !.fetched = "none", !.generated = <<>>]]
                 ELSE IF changes = <<>> THEN
                     wk' = [wk EXCEPT ![w] = [rec EXCEPT !.i = rec.i + 1]]
                 ELSE
                     wk' = [wk EXCEPT ![w] =
                              [rec EXCEPT !.changes = changes, !.c = 1,
                                          !.sub_id_counter = 1, !.generated = <<>>,
                                          !.pc = "change"]]
    /\ UNCHANGED <<store, history>>
    /\ WorkerFrame

ChangeFaults ==
    {"parse", "bias_before", "bias_after", "bias_both", "topic", "stance",
     "execute_operational", "execute_database"}

\* one iteration of "for change in changes" up to and including c.execute
ProcessChange(w) ==
    /\ wk[w].status = "running"
    /\ wk[w].pc = "change"
    /\ \E f \in MayFail(ChangeFaults) :
          LET rec == [wk[w] EXCEPT !.met = f]
              article_url == rec.articles[rec.a]
              rev == rec.revisions_info[rec.i + 1]
              change == rec.changes[rec.c]
              clean_before == clean_text(change.before, f # "parse")
              clean_after == clean_text(change.after, f # "parse")
              bias_before == get_bias_data(clean_before, f \notin {"bias_before", "bias_both"})
              bias_after == get_bias_data(clean_after, f \notin {"bias_after", "bias_both"})
              id == sub_id(rev.revid, rec.sub_id_counter)
              row == make_row(article_url, rev, change, prev_content(rec), id,
                              bias_before, bias_after, f # "topic", f # "stance")
              classified == [rec EXCEPT !.sub_id_counter = rec.sub_id_counter + 1,
                                        !.topic_calls = rec.topic_calls + 2,
                                        !.generated = Append(rec.generated,
                                                             [id |-> id, unit |-> rec.c])]
          IN  /\ Charge(f)
              /\ IF clean_before = <<>> /\ clean_after = <<>> THEN
                     wk' = [wk EXCEPT ![w] = NextChange([rec EXCEPT !.verdict = "discarded"])]
                 ELSE IF ~save_change(bias_before.score, bias_after.score) THEN
                     wk' = [wk EXCEPT ![w] = NextChange([rec EXCEPT !.verdict = "rejected"])]
                 ELSE IF ~(UpsertColumns \subseteq revisions_columns)
                         \/ f = "execute_operational" THEN
                     \* sqlite3.OperationalError: print and go on
                     wk' = [wk EXCEPT ![w] = NextChange([classified EXCEPT !.verdict = "db_error"])]
                 ELSE IF f = "execute_database" THEN
                     \* any other sqlite3 error is not caught
                     wk' = [wk EXCEPT ![w] = [Crashed(w, "DatabaseError") EXCEPT !.met = f]]
                 ELSE
                     \* the statement waits while another connection writes
                     /\ ~LockedByOther(w)
                     /\ wk' = [wk EXCEPT ![w] =
                                 [classified EXCEPT
                                     !.pending = Append(rec.pending, [row |-> row, unit |-> rec.c]),
                                     !.verdict = "executed",
                                     !.pc = "commit"]]
    /\ UNCHANGED <<store, history>>
    /\ WorkerFrame

\* conn.commit() and the rest of the iteration
Commit(w) ==
    /\ wk[w].status = "running"
    /\ wk[w].pc = "commit"
    /\ \E f \in MayFail({"commit_operational", "commit_database"}) :
          LET rec == [wk[w] EXCEPT !.met = f]
          IN  /\ Charge(f)
              /\ IF f = "commit_operational" THEN
                     \* the transaction stays open
                     /\ wk' = [wk EXCEPT ![w] = NextChange([rec EXCEPT !.verdict = "db_error"])]
                     /\ UNCHANGED <<store, history>>
                 ELSE IF f = "commit_database" THEN
                     /\ wk' = [wk EXCEPT ![w] = [Crashed(w, "DatabaseError") EXCEPT !.met = f]]
                     /\ UNCHANGED <<store, history>>
                 ELSE
                     /\ store' = ApplyAll(store, rec.pending)
                     /\ history' = Observe(history, rec.pending)
                     /\ wk' = [wk EXCEPT ![w] =
                                 NextChange([rec EXCEPT !.pending = <<>>, !.verdict = "saved"])]
    /\ WorkerFrame

\* conn.close() after the last article: an open transaction is rolled back
Close(w) ==
    /\ wk[w].status = "running"
    /\ wk[w].pc = "fetch"
    /\ wk[w].a > Len(wk[w].articles)
    /\ wk' = [wk EXCEPT ![w] = [wk[w] EXCEPT !.status = "finished", !.pending = <<>>]]
    /\ UNCHANGED <<store, history, faults>>
    /\ WorkerFrame

\* the worker process is killed from outside
Kill(w) ==
    /\ wk[w].status = "running"
    /\ faults < fault_budget
    /\ faults' = faults + 1
    /\ wk' = [wk EXCEPT ![w] = Crashed(w, "killed")]
    /\ UNCHANGED <<store, history>>
    /\ WorkerFrame

WorkerStep(w) ==
    \/ FetchPage(w)
    \/ NextRevision(w)
    \/ ProcessChange(w)
    \/ Commit(w)
    \/ Close(w)

\* one invocation of the command, in an environment that may fail
Next ==
    \/ GetRevisions
    \/ Spawn
    \/ Join
    \/ InProcess
    \/ \E w \in Workers : WorkerStep(w)
    \/ \E w \in Workers : Kill(w)

Spec == Init /\ [][Next]_vars

\* repeated invocations over the same inputs, in an environment that does
\* not fail
InitRerun ==
    /\ Setup
    /\ fault_budget = 0

NextRerun ==
    \/ GetRevisions
    \/ Spawn
    \/ Join
    \/ InProcess
    \/ Rerun
    \/ \E w \in Workers : WorkerStep(w)

SpecRerun == InitRerun /\ [][NextRerun]_vars

----------------------------------------------------------------------------
(* Partition harness: get_revisions up to the start of the workers, over  *)
(* article lists of every size 0..MaxM and device counts 0..MaxN          *)

\* m distinct article urls
Corpus(m) == [k \in 1..m |-> [domain |-> "en.wikipedia.org", title |-> ToString(k)]]

InitPartition ==
    /\ articles_table \in {Corpus(m) : m \in 0..MaxM}
    /\ revisions_columns = InitDbColumns \cup UpsertColumns
    /\ store = {}
    /\ limit \in {NoLimit} \cup 0..MaxM
    /\ num_gpus \in 0..MaxN
    /\ run = 1
    /\ mainpc = "start"
    /\ articles_from_db = <<>>
    /\ chunks = <<>>
    /\ spawn_i = 0
    /\ processes = <<>>
    /\ wk = [w \in Workers |-> IdleWorker]
    /\ fault_budget = 0
    /\ faults = 0
    /\ history = NoHistory
    /\ HarnessIdle

NextPartition ==
    \/ GetRevisions
    \/ Spawn

SpecPartition == InitPartition /\ [][NextPartition]_vars

----------------------------------------------------------------------------
(* Filter harness: the save_change decision on every pair of scores       *)

InitFilter ==
    /\ articles_table = <<>>
    /\ revisions_columns = InitDbColumns \cup UpsertColumns
    /\ store = {}
    /\ limit = NoLimit
    /\ num_gpus = 0
    /\ run = 1
    /\ mainpc = "off"
    /\ articles_from_db = <<>>
    /\ chunks = <<>>
    /\ spawn_i = 0
    /\ processes = <<>>
    /\ wk = [w \in Workers |-> IdleWorker]
    /\ fault_budget = 0
    /\ faults = 0
    /\ history = NoHistory
    /\ score_before \in 0..MaxScore
    /\ score_after \in 0..MaxScore
    /\ save_flag = FALSE
    /\ filterpc = "start"
    /\ ctx = NoContext
    /\ argv = NoArgv

\* diff_score = score_after - score_before; save_change = ...
Filter ==
    /\ filterpc = "start"
    /\ save_flag' = save_change(score_before, score_after)
    /\ filterpc' = "done"
    /\ UNCHANGED <<articles_table, revisions_columns, store, limit, num_gpus, run,
                   mainpc, articles_from_db, chunks, spawn_i, processes, wk,
                   fault_budget, faults, history, score_before, score_after, ctx, argv>>

NextFilter == Filter

SpecFilter == InitFilter /\ [][NextFilter]_vars

----------------------------------------------------------------------------
(* Properties                                                             *)

Terminated == mainpc \in {"returned", "raised"}

\* the rows a connection has written, committed or not
PendingRows == UNION {{wk[w].pending[k].row : k \in 1..Len(wk[w].pending)} : w \in Workers}

\* C1: insert-or-replace keyed by id.  Whatever was committed under an id,
\* once or several times, with the same or with different values, the store
\* holds exactly one row with that id and it is the row of the most recent
\* committed write; the store holds no other row.
C1_UpsertKeyedById ==
    /\ \A id \in DOMAIN history.last :
          /\ Cardinality({r \in store : r.id = id}) = 1
          /\ history.last[id] \in store
    /\ \A r \in store : r.id \in DOMAIN history.last

\* an id committed more than once, at least once with other values than
\* the ones the store holds now
C1_Witness ==
    \E id \in DOMAIN history.last :
        /\ history.count[id] = 2
        /\ Cardinality({r \in store : r.id = id}) = 1
        /\ \E o \in history.origins :
              o.id = id /\ o.article_url # history.last[id].article_url

\* C2: a second complete run over the same article list, the same responses
\* and the same classification results leaves the store as the first run
\* left it.
C2_RerunConvergent ==
    (run = 2 /\ Terminated) => store = history.first_store

\* the articles the started workers were handed, with their positions
Handed == {<<w, j>> \in Workers \X (1..Len(articles_table)) :
              wk[w].status # "none" /\ j <= Len(wk[w].articles)}

AllStarted == mainpc \in {"join", "inproc"}

\* C3: partition coverage.  Once the workers are started, every article of
\* the limit-truncated list is in the partition of exactly one worker and no
\* worker holds anything else; no worker is started on an empty partition; a
\* device count of at most 1 gives one in-process worker; an empty list
\* starts no worker.
C3_PartitionCoverage ==
    /\ AllStarted =>
          LET articles == truncate(articles_table, limit)
          IN  /\ \A k \in 1..Len(articles) :
                    Cardinality({h \in Handed : wk[h[1]].articles[h[2]] = articles[k]}) = 1
              /\ \A h \in Handed : wk[h[1]].articles[h[2]] \in Range(articles)
              /\ Cardinality(Handed) = Len(articles)
              /\ num_gpus <= 1 => {h[1] : h \in Handed} = {0}
    /\ \A w \in Workers : wk[w].status # "none" => wk[w].articles # <<>>
    /\ (mainpc = "returned" /\ truncate(articles_table, limit) = <<>>) => Handed = {}

\* a truncated list of five articles split unevenly over three devices
C3_Witness ==
    /\ mainpc = "join"
    /\ num_gpus = 3
    /\ Len(articles_from_db) = 5
    /\ Len(articles_from_db) < Len(articles_table)
    /\ Len(wk[0].articles) = 2 /\ Len(wk[1].articles) = 2 /\ Len(wk[2].articles) = 1

\* C4: significance filter.  A pair of scores is marked for saving exactly
\* when |after - before| > 0.1 or after > 0.3, both strict; the four pairs
\* of the specification come out saved, not saved, saved, saved.
C4_SignificanceFilter ==
    filterpc = "done" =>
        /\ save_flag <=> (Abs(score_after - score_before) > 10 \/ score_after > 30)
        /\ (score_before = 20 /\ score_after = 35) => save_flag
        /\ (score_before = 20 /\ score_after = 25) => ~save_flag
        /\ (score_before = 0 /\ score_after = 35) => save_flag
        /\ (score_before = 40 /\ score_after = 41) => save_flag

\* the pair that is saved by the second test alone
C4_Witness ==
    filterpc = "done" /\ score_before = 40 /\ score_after = 41 /\ save_flag

\* every row a worker has written is a filter-passing unit with text on
\* at least one side
RowsSignificant ==
    \A r \in store \cup PendingRows :
        /\ \/ Abs(r.bias_score_after - r.bias_score_before) > 10
           \/ r.bias_score_after > 30
        /\ \E parse_ok \in BOOLEAN :
              \/ clean_text(r.diff_before, parse_ok) # <<>>
              \/ clean_text(r.diff_after, parse_ok) # <<>>

\* a step in which worker w discarded or rejected a change unit
Dropped(w) ==
    /\ wk[w].status = "running"
    /\ wk[w].pc = "change"
    /\ wk'[w] # wk[w]
    /\ wk'[w].status = "running"
    /\ wk'[w].verdict \in {"discarded", "rejected"}

\* C5: a row is written only for a change unit with non-empty stripped
\* text on at least one side that passed the filter; a discarded or rejected
\* unit writes nothing, calls neither topic nor stance classification and
\* consumes no sequence number.
C5_OnlySignificantWritten ==
    /\ []RowsSignificant
    /\ [][\A w \in Workers :
            Dropped(w) =>
                /\ store' = store
                /\ wk'[w].pending = wk[w].pending
                /\ wk'[w].topic_calls = wk[w].topic_calls
                /\ wk'[w].sub_id_counter = wk[w].sub_id_counter]_vars

\* revision 3 of Foo after its third unit: one unit discarded, one saved
\* under sequence number 1, one rejected
C5_Witness ==
    \E w \in Workers :
        /\ wk[w].verdict = "rejected"
        /\ wk[w].sub_id_counter = 2
        /\ wk[w].topic_calls = 2
        /\ \E r \in store : r.id = "3-0001"

\* C6: every row the pipeline has written carries
\* bias_delta = bias_score_after - bias_score_before.
C6_DeltaIsDifference ==
    \A r \in store \cup PendingRows :
        r.bias_delta = r.bias_score_after - r.bias_score_before

\* a committed row of a removed sentence: the delta is negative
C6_Witness ==
    \E r \in store : r.bias_score_before = 20 /\ r.bias_score_after = 0 /\ r.bias_delta = -20

\* C7: within one run, no two distinct change units (another article,
\* another revision or another unit of the same revision) are committed
\* under the same id.
C7_IdsUnique ==
    \A x, y \in history.origins : x.id = y.id => x = y

\* C8: per-record durability.  Every upsert is committed before the worker
\* starts on the next change unit: a worker never holds more than one
\* uncommitted record, holds none when it is not between execute and commit,
\* and a worker that dies takes no committed row with it.
C8_PerRecordDurability ==
    /\ [](\A w \in Workers :
            /\ Len(wk[w].pending) <= 1
            /\ wk[w].pc # "commit" => wk[w].pending = <<>>)
    /\ [][\A w \in Workers :
            (wk[w].status = "running" /\ wk'[w].status = "crashed") => store' = store]_vars

\* C10: failure containment.  A worker process ends early only when it is
\* killed from outside: no failure met while handling an article (not found,
\* request failure, a body without query/pages, diff failure, classification
\* failure, store error) ends it before its last article.
C10_FailureContained ==
    \A w \in Workers : wk[w].status = "crashed" => wk[w].cause = "killed"

----------------------------------------------------------------------------
(* Worker isolation                                                       *)

\* The pool on a short corpus: one article whose response has no "query"
\* key, one with a revision that is saved, one that does not exist.
InitPool ==
    /\ articles_table = <<Bad, Bar, Missing>>
    /\ revisions_columns = InitDbColumns \cup UpsertColumns
    /\ store = {}
    /\ limit = NoLimit
    /\ num_gpus \in 2..MaxGpus
    /\ run = 1
    /\ mainpc = "start"
    /\ articles_from_db = <<>>
    /\ chunks = <<>>
    /\ spawn_i = 0
    /\ processes = <<>>
    /\ wk = [w \in Workers |-> IdleWorker]
    /\ fault_budget = MaxFaults
    /\ faults = 0
    /\ history = NoHistory
    /\ HarnessIdle

NextPool ==
    \/ GetRevisions
    \/ Spawn
    \/ Join
    \/ \E w \in Workers : WorkerStep(w)
    \/ \E w \in Workers : Kill(w)

\* Scheduling: the parent runs its loops and waits in join, and while some
\* worker process can take a step, some worker process takes one.  (A
\* statement that waits for the write lock gets it when the holder commits,
\* closes or dies, and every worker takes finitely many steps.)
AnyWorkerStep == \E w \in Workers : WorkerStep(w)

Fairness ==
    /\ WF_vars(GetRevisions)
    /\ WF_vars(Spawn)
    /\ WF_vars(Join)
    /\ WF_vars(AnyWorkerStep)

FairPool == InitPool /\ [][NextPool]_vars /\ Fairness

\* a step in which worker w dies
Dies(w) == wk[w].status = "running" /\ wk'[w].status = "crashed"

\* C9: worker isolation.  The death of one worker changes neither the
\* store nor the state of any other worker; every other started worker goes
\* on until it has processed all articles of its partition (unless it dies
\* itself); get_revisions returns from the join, and not before every
\* started worker has finished or died.
C9_WorkerIsolation ==
    /\ [][\A w \in Workers :
            Dies(w) => /\ store' = store
                       /\ \A v \in Workers \ {w} : wk'[v] = wk[v]]_vars
    /\ [](\A w \in Workers :
            wk[w].status = "finished" => wk[w].a = Len(wk[w].articles) + 1)
    /\ []((mainpc = "returned" /\ num_gpus > 1) =>
            \A k \in 1..Len(processes) :
                wk[processes[k]].status \in {"finished", "crashed"})
    /\ <>(mainpc = "returned")

\* get_revisions has returned from the join; one worker died after it had
\* committed a row, which is still in the store; a sibling finished its
\* partition
C9_Witness ==
    /\ mainpc = "returned"
    /\ \E w, v \in Workers :
          /\ wk[w].status = "crashed"
          /\ wk[v].status = "finished"
          /\ wk[v].a = Len(wk[v].articles) + 1
          /\ wk[w].cause = "killed"
          /\ \E r \in store : r.article_url \in Range(wk[w].articles)

----------------------------------------------------------------------------
(* Fetch loop                                                             *)

\* C11: after a failed revision-history request (on the first or on a later
\* page) the article is abandoned: while the worker is still on that article
\* it is at the head of an empty revision loop, so that no revision of the
\* article is diffed, classified or written after the failure.
C11_RequestFailureAborts ==
    \A w \in Workers :
        (wk[w].status = "running" /\ wk[w].fetched = "failed") =>
            /\ wk[w].pc = "revisions"
            /\ wk[w].i = 0
            /\ wk[w].changes = <<>>

\* the remote reports that the article does not exist
NotFoundArticle(url) == Remote(url)[1].kind = "notfound"

\* a step of worker w that follows a not-found response
AfterNotFound(w) ==
    /\ wk[w].status = "running"
    /\ wk[w].fetched = "notfound"
    /\ wk'[w] # wk[w]

\* C12: a not-found response makes the worker skip the article.  No row is
\* ever written for such an article, the worker holds no revision of it,
\* it does not end on it (unless killed from outside), and its next step
\* takes it to the next article of its partition.
C12_NotFoundSkipped ==
    /\ [](\A r \in store \cup PendingRows : ~NotFoundArticle(r.article_url))
    /\ [](\A w \in Workers :
            /\ (wk[w].status = "running" /\ wk[w].fetched = "notfound") =>
                  /\ NotFoundArticle(wk[w].articles[wk[w].a])
                  /\ wk[w].revisions_info = <<>>
                  /\ wk[w].pc = "revisions"
            /\ (/\ wk[w].status = "crashed"
                /\ wk[w].a <= Len(wk[w].articles)
                /\ NotFoundArticle(wk[w].articles[wk[w].a])) => wk[w].cause = "killed")
    /\ [][\A w \in Workers :
            AfterNotFound(w) =>
                \/ wk'[w].status = "crashed" /\ wk'[w].cause = "killed"
                \/ /\ wk'[w].status = "running"
                   /\ wk'[w].a = wk[w].a + 1
                   /\ wk'[w].pc = "fetch"
                   /\ store' = store]_vars

\* a worker that skipped the missing first article of its partition and
\* has committed a row of the second
C12_Witness ==
    \E w \in Workers :
        /\ Len(wk[w].articles) >= 2
        /\ NotFoundArticle(wk[w].articles[1])
        /\ wk[w].a >= 2
        /\ \E r \in store : r.article_url = wk[w].articles[2]

\* C13: schema agreement.  On the table that init_db creates, a change unit
\* that passed the filter is not turned away by the store: without an
\* environment fault no upsert ends in a store error.
C13_SchemaAgreement ==
    (revisions_columns = InitDbColumns /\ faults = 0) =>
        \A w \in Workers : wk[w].verdict # "db_error"

\* the revisions of the first k responses, in the order returned
RECURSIVE Pages(_, _)
Pages(responses, k) ==
    IF k = 0 THEN <<>> ELSE Pages(responses, k - 1) \o responses[k].revisions

\* C14: pagination.  Every request but the first follows the continuation
\* token of the response before it; while the loop runs the list holds the
\* pages received so far in order; the loop ends with "complete" exactly at
\* the first response without a token, and then the list is the
\* concatenation of all pages; the revision loop starts only after the fetch
\* loop has ended.
C14_Pagination ==
    \A w \in Workers :
        (wk[w].status = "running" /\ wk[w].a <= Len(wk[w].articles)) =>
            LET responses == Remote(wk[w].articles[wk[w].a])
                req == wk[w].req
            IN  /\ req <= Len(responses)
                /\ \A k \in 1..(req - 1) :
                      responses[k].kind = "page" /\ responses[k].continue
                /\ wk[w].pc = "fetch" =>
                      /\ wk[w].fetched = "none"
                      /\ wk[w].revisions_info = Pages(responses, req - 1)
                /\ wk[w].pc # "fetch" => wk[w].fetched \in {"complete", "failed", "notfound"}
                /\ wk[w].fetched = "complete" =>
                      /\ responses[req].kind = "page"
                      /\ ~responses[req].continue
                      /\ wk[w].revisions_info = Pages(responses, req)
                /\ wk[w].fetched = "notfound" => responses[req].kind = "notfound"

\* an article of two pages fetched completely, its first change unit in work
C14_Witness ==
    \E w \in Workers :
        /\ wk[w].status = "running"
        /\ wk[w].fetched = "complete"
        /\ wk[w].req = 2
        /\ wk[w].revisions_info = <<RevFoo3, RevFoo2>>
        /\ wk[w].pc = "change"

----------------------------------------------------------------------------
(* Context harness: the ai_context computation on every combination of    *)
(* short texts over a word and a blank                                    *)

Texts(n) == UNION {[1..k -> {"a", " "}] : k \in 0..n}

InitContext ==
    /\ articles_table = <<>>
    /\ revisions_columns = InitDbColumns \cup UpsertColumns
    /\ store = {}
    /\ limit = NoLimit
    /\ num_gpus = 0
    /\ run = 1
    /\ mainpc = "off"
    /\ articles_from_db = <<>>
    /\ chunks = <<>>
    /\ spawn_i = 0
    /\ processes = <<>>
    /\ wk = [w \in Workers |-> IdleWorker]
    /\ fault_budget = 0
    /\ faults = 0
    /\ history = NoHistory
    /\ score_before = 0
    /\ score_after = 0
    /\ save_flag = FALSE
    /\ filterpc = "off"
    /\ argv = NoArgv
    /\ \E before_text \in Texts(MaxBefore), after_text \in Texts(MaxAfter),
          prev \in Texts(MaxPrev), curr \in Texts(MaxCurr) :
          ctx = [pc |-> "start", before_text |-> before_text, after_text |-> after_text,
                 prev_content |-> prev, curr_content |-> curr, context |-> <<>>]

\* text_for_analysis, the match and the slice
BuildContext ==
    /\ ctx.pc = "start"
    /\ ctx' = [ctx EXCEPT !.pc = "done",
                          !.context = ai_context(ctx.before_text, ctx.after_text,
                                                 ctx.prev_content, ctx.curr_content)]
    /\ UNCHANGED <<articles_table, revisions_columns, store, limit, num_gpus, run,
                   mainpc, articles_from_db, chunks, spawn_i, processes, wk,
                   fault_budget, faults, history,
                   score_before, score_after, save_flag, filterpc, argv>>

NextContext == BuildContext

SpecContext == InitContext /\ [][NextContext]_vars

\* after_text occurs in the current content
Found == ctx.after_text # <<>> /\ finditer(ctx.after_text, ctx.curr_content) # <<>>

\* C15 as stated: whenever after_text of length L is found in the current
\* content, the context has length at most 2*L.
C15_ContextBoundWheneverFound ==
    (ctx.pc = "done" /\ Found) => Len(ctx.context) <= 2 * Len(ctx.after_text)

\* C15: context window bound.  Whenever an after_text of length L that is
\* not blank is found in the current content, the context is the slice of
\* the content around one of its occurrences, from max(0, idx - L/2) to
\* min(len, idx + L + L/2): it is at most 2*L long, contains the occurrence
\* and lies within the content, also for an occurrence at the very start or
\* the very end.
C15_ContextWindowBound ==
    (ctx.pc = "done" /\ Found /\ ~IsBlank(ctx.after_text)) =>
        LET L == Len(ctx.after_text)
            matches == finditer(ctx.after_text, ctx.curr_content)
        IN  /\ Len(ctx.context) <= 2 * L
            /\ \E k \in 1..Len(matches) :
                  LET idx == matches[k]
                      start == Max(0, idx - L \div 2)
                      end == Min(Len(ctx.curr_content), idx + L + L \div 2)
                  IN  /\ 0 <= start /\ start <= idx
                      /\ idx + L <= end /\ end <= Len(ctx.curr_content)
                      /\ ctx.context = Slice(ctx.curr_content, start, end)

\* a match of two words that is the whole content: both ends are clamped
C15_Witness ==
    /\ ctx.pc = "done"
    /\ ctx.after_text = <<"a", "a">>
    /\ ctx.curr_content = <<"a", "a">>
    /\ ctx.context = <<"a", "a">>

----------------------------------------------------------------------------
(* Failure handling inside one change unit and one revision               *)

ClassificationFaults == {"bias_before", "bias_after", "bias_both", "topic", "stance"}

StoreFaults ==
    {"execute_operational", "execute_database", "commit_operational", "commit_database"}

\* the texts that occur in the corpus
CorpusTexts ==
    {<<>>, <<" ">>, <<"a">>, <<"b">>, <<"b", "b">>, ContentFoo2, ContentFoo3, ContentBar3}

\* the row of the statement worker w executed last
LastRow(w) == wk[w].pending[Len(wk[w].pending)].row

\* C16: classification degrades gracefully.  A failed bias call yields
\* score 0.0 and label "Neutral", a failed topic call "N/A", a failed stance
\* call "N/A"; the worker that met the failure does not end, it carries the
\* same change unit to its verdict, and a row written for the unit holds the
\* defaults in the fields of the failed service.
C16_ClassificationDegrades ==
    /\ \A t \in CorpusTexts :
          /\ get_bias_data(t, FALSE) = [score |-> 0, label |-> "Neutral"]
          /\ predict_topic(t, FALSE) = "N/A"
          /\ predict_political_stance(t, FALSE) = "N/A"
    /\ \A w \in Workers :
          wk[w].met \in ClassificationFaults =>
              /\ wk[w].status = "crashed" => wk[w].cause = "killed"
              /\ wk[w].verdict \in {"discarded", "rejected", "db_error", "executed"}
              /\ (wk[w].status = "running" /\ wk[w].verdict = "executed") =>
                    /\ wk[w].pc = "commit"
                    /\ LastRow(w).id = wk[w].generated[Len(wk[w].generated)].id
                    /\ wk[w].met \in {"bias_before", "bias_both"} =>
                          /\ LastRow(w).bias_score_before = 0
                          /\ LastRow(w).bias_label_before = "Neutral"
                    /\ wk[w].met \in {"bias_after", "bias_both"} =>
                          /\ LastRow(w).bias_score_after = 0
                          /\ LastRow(w).bias_label_after = "Neutral"
                    /\ wk[w].met = "topic" => LastRow(w).ai_topic = "N/A"
                    /\ wk[w].met = "stance" => LastRow(w).ai_political_stance = "N/A"

\* the topic call failed on a unit that was then written: the topic is the
\* default, the stance is the classifier's answer
C16_Witness ==
    \E w \in Workers :
        /\ wk[w].status = "running"
        /\ wk[w].met = "topic"
        /\ wk[w].verdict = "executed"
        /\ LastRow(w).ai_topic = "N/A"
        /\ LastRow(w).ai_political_stance = "Partisan"

\* C17: a failed upsert, whatever error the insert or the commit raises,
\* does not end the worker (it goes on with the following units) and
\* changes no committed row.
C17_UpsertFailureContained ==
    /\ [](\A w \in Workers :
            (wk[w].met \in StoreFaults /\ wk[w].status = "crashed") =>
                wk[w].cause = "killed")
    /\ [][\A w \in Workers :
            (wk'[w] # wk[w] /\ wk'[w].met \in StoreFaults) => store' = store]_vars

\* C18: diff failure.  When the structured diff raises,
\* get_structured_changes returns the empty sequence; the step in which a
\* worker meets the failure writes nothing, generates no id, calls no
\* classifier and takes the worker to the next revision of the same
\* article.
C18_DiffFailureSkipsRevision ==
    /\ [](\A prev, curr \in CorpusTexts :
            /\ get_structured_changes(prev, curr, FALSE) = <<>>
            /\ get_diff(prev, curr).raised => get_structured_changes(prev, curr, TRUE) = <<>>)
    /\ [](\A w \in Workers :
            (wk[w].status = "running" /\ wk[w].met = "diff") =>
                /\ wk[w].pc = "revisions"
                /\ wk[w].changes = <<>>
                /\ wk[w].i >= 1)
    /\ [][\A w \in Workers :
            (wk'[w] # wk[w] /\ wk'[w].status = "running" /\ wk'[w].met = "diff") =>
                /\ store' = store
                /\ wk'[w].pending = wk[w].pending
                /\ wk'[w].generated = wk[w].generated
                /\ wk'[w].topic_calls = wk[w].topic_calls
                /\ wk'[w].a = wk[w].a
                /\ wk'[w].i = wk[w].i + 1]_vars

\* the diff of the newest of two revisions failed: the worker stands before
\* the older revision of the same article
C18_Witness ==
    \E w \in Workers :
        /\ wk[w].status = "running"
        /\ wk[w].met = "diff"
        /\ wk[w].i = 1
        /\ Len(wk[w].revisions_info) = 2
        /\ wk[w].pc = "revisions"

----------------------------------------------------------------------------
(* One worker over the whole article list, without faults: the rows it    *)
(* commits, in order                                                      *)

\* revisions_info after the request loop
AllRevisions(url) ==
    LET responses == Remote(url)
    IN  IF responses[1].kind = "page" THEN Pages(responses, Len(responses)) ELSE <<>>

\* the rows of the change units c.. of one revision
RECURSIVE UnitRows(_, _, _, _, _, _)
UnitRows(article_url, rev, prev, changes, c, counter) ==
    IF c > Len(changes) THEN <<>>
    ELSE LET change == changes[c]
             clean_before == clean_text(change.before, TRUE)
             clean_after == clean_text(change.after, TRUE)
             bias_before == get_bias_data(clean_before, TRUE)
             bias_after == get_bias_data(clean_after, TRUE)
         IN  IF (clean_before = <<>> /\ clean_after = <<>>)
                \/ ~save_change(bias_before.score, bias_after.score)
             THEN UnitRows(article_url, rev, prev, changes, c + 1, counter)
             ELSE << make_row(article_url, rev, change, prev, sub_id(rev.revid, counter),
                              bias_before, bias_after, TRUE, TRUE) >>
                  \o UnitRows(article_url, rev, prev, changes, c + 1, counter + 1)

\* the rows of the revisions i.. of one article (i is 0-based)
RECURSIVE RevisionRows(_, _, _)
RevisionRows(article_url, revisions_info, i) ==
    IF i >= Len(revisions_info) THEN <<>>
    ELSE LET rev == revisions_info[i + 1]
             prev == IF i + 1 < Len(revisions_info)
                     THEN revisions_info[i + 2].content ELSE <<>>
             changes == get_structured_changes(prev, rev.content, TRUE)
         IN  UnitRows(article_url, rev, prev, changes, 1, 1)
             \o RevisionRows(article_url, revisions_info, i + 1)

RECURSIVE BatchRows(_)
BatchRows(articles) ==
    IF articles = <<>> THEN <<>>
    ELSE RevisionRows(Head(articles), AllRevisions(Head(articles)), 0)
         \o BatchRows(Tail(articles))

RECURSIVE UpsertAll(_, _)
UpsertAll(table, rows) ==
    IF rows = <<>> THEN table
    ELSE UpsertAll(insert_or_replace(table, Head(rows)), Tail(rows))

\* the store after process_batch(articles) on an empty table
SequentialStore(articles, columns) ==
    IF UpsertColumns \subseteq columns THEN UpsertAll({}, BatchRows(articles)) ELSE {}

\* C19: interleaving independence.  With more than one worker, no store
\* error and no worker lost, the store at the end of the run is the store
\* that one worker leaves when it processes the same articles in order,
\* whatever the interleaving of the workers' upserts and commits was.
C19_InterleavingIndependent ==
    (/\ run = 1
     /\ mainpc = "returned"
     /\ num_gpus > 1
     /\ \A w \in Workers : wk[w].status # "crashed") =>
        store = SequentialStore(truncate(articles_table, limit), revisions_columns)

\* the same for the single in-process worker
SingleWorkerStore ==
    (run = 1 /\ mainpc = "returned" /\ num_gpus = 1) =>
        store = SequentialStore(truncate(articles_table, limit), revisions_columns)

----------------------------------------------------------------------------
(* Sequence numbers                                                       *)

\* a step in which worker w brings a change unit to its verdict
Decides(w) ==
    /\ wk[w].status = "running"
    /\ wk[w].pc = "change"
    /\ wk'[w] # wk[w]
    /\ wk'[w].status = "running"

\* C20: sequence numbering.  Inside the change loop of a revision the
\* counter is one more than the number of ids generated for the revision;
\* the k-th generated id is revid-000k; the ids are generated in extraction
\* order.  A unit that is discarded or rejected generates no id and leaves
\* the counter; a unit that passed the filter generates the next id and
\* advances the counter, also when its upsert fails.
C20_SequenceNumbering ==
    /\ [](\A w \in Workers :
            (wk[w].status = "running" /\ wk[w].pc \in {"change", "commit"}) =>
                LET revid == wk[w].revisions_info[wk[w].i + 1].revid
                    generated == wk[w].generated
                IN  /\ wk[w].sub_id_counter = Len(generated) + 1
                    /\ \A k \in 1..Len(generated) :
                          /\ generated[k].id = ToString(revid) \o "-000" \o ToString(k)
                          /\ generated[k].unit <= wk[w].c
                          /\ \A j \in 1..(k - 1) : generated[j].unit < generated[k].unit)
    /\ [][\A w \in Workers :
            Decides(w) =>
                IF wk'[w].verdict \in {"discarded", "rejected"}
                THEN /\ wk'[w].sub_id_counter = wk[w].sub_id_counter
                     /\ wk'[w].generated = wk[w].generated
                ELSE /\ wk'[w].verdict \in {"executed", "db_error"}
                     /\ wk'[w].sub_id_counter = wk[w].sub_id_counter + 1
                     /\ Len(wk'[w].generated) = Len(wk[w].generated) + 1
                     /\ wk'[w].generated[Len(wk'[w].generated)].unit = wk[w].c]_vars

\* revision 3 of Foo: its second and fourth unit passed the filter and got
\* 3-0001 and 3-0002; the upsert of the first failed, the second is stored
C20_Witness ==
    \E w \in Workers :
        /\ wk[w].a <= Len(wk[w].articles)
        /\ wk[w].articles[wk[w].a] = Foo
        /\ Len(wk[w].generated) = 2
        /\ wk[w].generated[1] = [id |-> "3-0001", unit |-> 2]
        /\ wk[w].generated[2] = [id |-> "3-0002", unit |-> 4]
        /\ wk[w].verdict = "saved"
        /\ \E r \in store : r.id = "3-0002"
        /\ \A r \in store : r.id # "3-0001"

----------------------------------------------------------------------------
(* Repeated runs in an environment that may fail: a later run can see     *)
(* fewer filter-passing units of a revision than an earlier one           *)

InitRepeat ==
    /\ articles_table \in {<<Missing, Foo>>, <<Foo, Bar>>}
    /\ revisions_columns = InitDbColumns \cup UpsertColumns
    /\ store = {}
    /\ limit = NoLimit
    /\ num_gpus \in 1..2
    /\ run = 1
    /\ mainpc = "start"
    /\ articles_from_db = <<>>
    /\ chunks = <<>>
    /\ spawn_i = 0
    /\ processes = <<>>
    /\ wk = [w \in Workers |-> IdleWorker]
    /\ fault_budget = MaxFaults
    /\ faults = 0
    /\ history = NoHistory
    /\ HarnessIdle

NextRepeat ==
    \/ GetRevisions
    \/ Spawn
    \/ Join
    \/ InProcess
    \/ Rerun
    \/ \E w \in Workers : WorkerStep(w)
    \/ \E w \in Workers : Kill(w)

SpecRepeat == InitRepeat /\ [][NextRepeat]_vars

StoredIds == {r.id : r \in store}

\* C21: the pipeline never deletes a row.  No step of any run, successful
\* or failed, takes an id out of the store; a step that changes the store
\* adds or replaces the rows of the committed transaction and leaves every
\* other row as it was.
C21_NeverDeletes ==
    [][/\ StoredIds \subseteq {r.id : r \in store'}
       /\ \A r \in store : r \in store' \/ r.id \in {p.id : p \in PendingRows}]_vars

\* second run: revision 3 of Foo yields one id only (its inserted sentence
\* was rejected after a failed bias call), so the removed sentence is
\* written under 3-0001, and the row 3-0002 of the first run is still
\* there
C21_Witness ==
    /\ run = 2
    /\ \E w \in Workers :
          /\ wk[w].verdict = "saved"
          /\ wk[w].generated = << [id |-> "3-0001", unit |-> 4] >>
          /\ \E r \in store : r.id = "3-0001" /\ r.change_type = "Text:Sentence:Remove"
          /\ \E r \in store : r.id = "3-0002" /\ r.change_type = "Text:Sentence:Remove"

----------------------------------------------------------------------------
(* Context selection                                                      *)

\* t occurs in s as a contiguous substring
Contains(s, t) == \E k \in 0..(Len(s) - Len(t)) : SubSeq(s, k + 1, k + Len(t)) = t

\* the slice of the content around the occurrence at offset idx
WindowAt(idx) ==
    LET L == Len(ctx.after_text)
    IN  Slice(ctx.curr_content, Max(0, idx - L \div 2),
              Min(Len(ctx.curr_content), idx + L + L \div 2))

----------------------------------------------------------------------------
(* Changed sentences                                                      *)

\* the score of a text when the bias service answers
Score(t) == get_bias_data(clean_text(t, TRUE), TRUE).score

\* C23: a change unit of kind Text:Sentence:Change leaves the extractor
\* with before = after; every row of that kind has diff_before =
\* diff_after, equal scores and delta 0; and, the scorer being
\* deterministic, such a unit is written to the store exactly when its
\* score is greater than 0.3.
C23_SentenceChangeRows ==
    /\ [](\A prev, curr \in CorpusTexts :
            LET changes == get_structured_changes(prev, curr, TRUE)
            IN  \A k \in 1..Len(changes) :
                    changes[k].type = "Text:Sentence:Change" =>
                        changes[k].before = changes[k].after)
    /\ [](\A r \in store \cup PendingRows :
            r.change_type = "Text:Sentence:Change" =>
                /\ r.diff_before = r.diff_after
                /\ r.bias_score_before = r.bias_score_after
                /\ r.bias_delta = 0
                /\ r.bias_score_after > 30)
    /\ [][\A w \in Workers :
            (Decides(w) /\ wk[w].changes[wk[w].c].type = "Text:Sentence:Change") =>
                (wk'[w].verdict = "executed" <=> Score(wk[w].changes[wk[w].c].after) > 30)]_vars

----------------------------------------------------------------------------
(* main.py: the revision-fetch command and the run without a command      *)

\* def get_revisions(debug_mode=None, limit=None)
get_revisions_parameters == {"debug_mode", "limit"}

\* get_revisions(debug_mode=debug_mode, limit=limit, workers_per_gpu=workers_per_gpu)
revision_fetch_keywords == {"debug_mode", "limit", "workers_per_gpu"}

\* the command lines: "app revision-fetch [--limit N] [--workers-per-gpu N]"
\* and "app" alone
CommandLines ==
    [cmd : {"revision-fetch"}, limit : {NoLimit, 0, 1, 2}, workers_per_gpu : 1..2]
    \cup {[cmd |-> "none", limit |-> NoLimit, workers_per_gpu |-> 1]}

InitMain ==
    /\ articles_table \in ArticleTables
    /\ revisions_columns \in {InitDbColumns, InitDbColumns \cup UpsertColumns}
    /\ store = {}
    /\ limit = NoLimit
    /\ num_gpus \in 1..MaxGpus
    /\ run = 1
    /\ mainpc = "main"
    /\ articles_from_db = <<>>
    /\ chunks = <<>>
    /\ spawn_i = 0
    /\ processes = <<>>
    /\ wk = [w \in Workers |-> IdleWorker]
    /\ fault_budget = 0
    /\ faults = 0
    /\ history = NoHistory
    /\ score_before = 0
    /\ score_after = 0
    /\ save_flag = FALSE
    /\ filterpc = "off"
    /\ ctx = NoContext
    /\ argv \in CommandLines

\* main(): the call of get_revisions.  A keyword the function does not
\* declare raises TypeError before its body runs.  Without a command
\* get_revisions() is called when table revisions is empty, and reads no
\* limit from the (empty) command line.
Main ==
    /\ mainpc = "main"
    /\ IF argv.cmd = "revision-fetch" THEN
           IF revision_fetch_keywords \subseteq get_revisions_parameters
           THEN mainpc' = "start" /\ limit' = argv.limit
           ELSE mainpc' = "TypeError" /\ UNCHANGED limit
       ELSE
           /\ mainpc' = IF store = {} THEN "start" ELSE "returned"
           /\ limit' = NoLimit
    /\ UNCHANGED <<articles_table, revisions_columns, store, num_gpus, run,
                   articles_from_db, chunks, spawn_i, processes, wk,
                   fault_budget, faults, history,
                   score_before, score_after, save_flag, filterpc, ctx, argv>>

NextMain ==
    \/ Main
    \/ GetRevisions
    \/ Spawn
    \/ Join
    \/ InProcess
    \/ \E w \in Workers : WorkerStep(w)

SpecMain == InitMain /\ [][NextMain]_vars

\* C24: invocation pass-through.  The revision-fetch command gets into
\* get_revisions with the limit of the command line, and the pipeline then
\* runs over the first limit articles (all of them without a positive
\* limit).
C24_InvocationPassThrough ==
    argv.cmd = "revision-fetch" =>
        /\ mainpc # "TypeError"
        /\ mainpc # "main" => limit = argv.limit
        /\ mainpc \in {"spawn", "join", "inproc", "returned", "raised"} =>
              articles_from_db = truncate(articles_table, argv.limit)

====
